---- MODULE Spec2Model ----
(***************************************************************************)
(* The MCP subsystem of IntelliCLI: MCPClient (one subprocess speaking     *)
(* newline-delimited JSON-RPC over stdin/stdout) and MCPToolManager (the   *)
(* clients of all configured servers, the aggregate tool registry, the     *)
(* per-server status and the health check).                                *)
(*                                                                         *)
(* Every handler is one action.  A handler's body is written as an         *)
(* operator that maps a state record to the SET of outcomes the handler    *)
(* can have, one outcome per behaviour of the subprocesses it talks to.    *)
(* Spec takes a pass of the health check as one step; SpecThreads takes it *)
(* server by server, the caller's handlers running in between; SpecLock    *)
(* takes the steps of the threads one by one: taking the connection lock,  *)
(* writing a request, reading its response, collecting a future.           *)
(***************************************************************************)
EXTENDS Integers, Sequences, FiniteSets, TLC

VARIABLES
    server_configs,        \* MCPToolManager.server_configs
    clients,               \* MCPToolManager.clients  (name -> MCPClient)
    clients_order,         \* insertion order of the keys of clients
    all_tools,             \* MCPToolManager.all_tools (key -> MCPTool)
    server_status,         \* MCPToolManager.server_status
    health_check_running,  \* MCPToolManager.health_check_running
    health_check_thread,   \* MCPToolManager.health_check_thread (a thread id)
    health_threads,        \* the live threads that run _health_check_loop
    joining,               \* the caller waits in stop_health_check's join
    proc,                  \* the subprocess of each server name
    faults,                \* number of subprocess misbehaviours so far
    connection_lock,       \* MCPToolManager.connection_lock: its holder
    futures,               \* the futures of a connect_all_servers in progress
    caller,                \* where the caller's thread is inside a handler
    in_flight,             \* the requests written and not yet answered
    last                   \* the last handler: name, argument, result, I/O

\* the health check: the flag, the thread handle and the threads
health == <<health_check_running, health_check_thread, health_threads, joining>>

\* the steps inside the handlers: the lock, the pool, the pending requests
workers == <<connection_lock, futures, caller, in_flight>>

vars == <<server_configs, clients, clients_order, all_tools, server_status,
          health, proc, faults, workers, last>>

-----------------------------------------------------------------------------
(* Bounds of the model *)

\* a client issues at most this many requests (request ids 1..MaxRequestId)
MaxRequestId == 5
\* at most this many times in a run a subprocess misbehaves: it fails to
\* start, exits, does not answer a request promptly and correctly, or
\* withdraws a tool
MaxFaults == 1
\* a plan of the Executor has at most this many steps
MaxPlanLen == 2

(* Values *)

Servers == {"A", "B", "C"}
None == "None"
Now == "datetime.now()"
Popen == "Popen"

\* the tool lists the configured server programs may expose: tools/list of
\* server s gives Programs[i][s]
ToolNames == {"search", "echo"}
Programs ==
    { [A |-> <<"echo", "search">>, B |-> <<"search">>, C |-> <<"search">>],
      [A |-> <<"search">>, B |-> <<"echo", "search">>, C |-> <<>>],
      [A |-> <<>>, B |-> <<"search">>, C |-> <<>>] }
Arguments == {"hi"}

\* f"{server_name}_{tool.name}"
PrefixedName(server_name, name) == server_name \o "_" \o name

\* the names a caller may pass to MCPToolManager.call_tool
CallNames == ToolNames \cup {PrefixedName(s, "search") : s \in {"A", "B"}}
                \cup {"nosuch"}

Range(f) == {f[i] : i \in DOMAIN f}

\* a function without the keys in K, and with one key set
Without(f, K) == [k \in (DOMAIN f) \ K |-> f[k]]
With(f, k, v) == [x \in (DOMAIN f) \cup {k} |-> IF x = k THEN v ELSE f[x]]

-----------------------------------------------------------------------------
(* I/O events of a handler *)

Event(ev, server, method, id, rid) ==
    [ev |-> ev, server |-> server, method |-> method, id |-> id, rid |-> rid]

-----------------------------------------------------------------------------
(* MCPClient.  A connection cx is the client object c, the name of its     *)
(* server, the subprocess p it talks to, the fault count and the I/O log.  *)

\* MCPClient.__init__
NewClient ==
    [process |-> None, is_connected |-> FALSE, tools |-> {},
     request_id |-> 0, last_heartbeat |-> None]

\* a server's subprocess: its state, the lines on its stdout that the
\* client has not read, the tools the server program exposes, and whether
\* it has read the notifications/initialized line from its stdin
NoProcess(tools) ==
    [state |-> "none", pipe |-> <<>>, tools |-> tools, initialized |-> FALSE]

\* self.process.poll() is None
Running(cx) == cx.c.process # None /\ cx.p.state = "running"

Log(cx, e) == [cx EXCEPT !.io = Append(@, e)]

\* params of a request: tools/call carries {name, arguments}
NoParams == [name |-> "", arguments |-> ""]
CallParams(tool_name, arguments) == [name |-> tool_name, arguments |-> arguments]

\* a line on stdout; has_content tells whether the result has a "content" key
Line(kind, method, tools, has_content, content, message) ==
    [kind |-> kind, of |-> method, tools |-> tools, has_content |-> has_content,
     content |-> content, message |-> message]

\* the content array of the result of a tool: search gives one text item,
\* echo is a tool without output and gives an empty array
ContentOf(tool_name, arguments) ==
    IF tool_name = "echo" THEN <<>> ELSE <<arguments>>

\* the line a server sends for a request it answers correctly: tools/list
\* gives {tools: [...]}, tools/call of a tool it has gives {content: [...]}
ResultOf(p, method, params) ==
    CASE method = "tools/list" -> Line("result", method, p.tools, FALSE, <<>>, "")
      [] method = "tools/call" ->
            IF params.name \in Range(p.tools)
            THEN Line("result", method, <<>>, TRUE,
                      ContentOf(params.name, params.arguments), "")
            ELSE Line("error", method, <<>>, FALSE, <<>>, "Unknown tool")
      [] OTHER -> Line("result", method, <<>>, FALSE, <<>>, "")

\* what the subprocess may do with a request line: answer it, answer with
\* an RPC error or with a line that is not JSON, answer after the timeout,
\* exit without an answer, or answer and exit; a server may answer
\* tools/list with a list that no longer has its first tool
Behaviours(cx, method) ==
    {"reply"} \cup
    (IF cx.faults < MaxFaults
     THEN {"error", "garbage", "late", "exit", "reply_exit"} \cup
          (IF method = "ping" THEN {"method_not_found"} ELSE {}) \cup
          (IF method = "tools/list" /\ cx.p.tools # <<>> THEN {"drop_tool"} ELSE {})
     ELSE {})

\* what a behaviour takes from the budget of MaxFaults: a server without a
\* ping method is a correct server
Cost(b) == IF b \in {"reply", "method_not_found"} THEN 0 ELSE 1

\* the line a behaviour puts on stdout for request id
ReplyLine(p, b, id, method, params) ==
    [id |-> id] @@
    CASE b = "error"            -> Line("error", method, <<>>, FALSE, <<>>, "Internal error")
      [] b = "method_not_found" -> Line("error", method, <<>>, FALSE, <<>>, "Method not found")
      [] b = "garbage"          -> Line("garbage", method, <<>>, FALSE, <<>>, "")
      [] OTHER                  -> ResultOf(p, method, params)

\* the subprocess after its reaction to the request, before the client reads
Reacted(p, b, id, method, params) ==
    CASE b = "late" -> p
      [] b = "exit" -> [p EXCEPT !.state = "exited"]
      [] b = "reply_exit" ->
            [p EXCEPT !.pipe = Append(@, ReplyLine(p, b, id, method, params)),
                      !.state = "exited"]
      [] b = "drop_tool" ->
            LET q == [p EXCEPT !.tools = Tail(@)]
            IN [q EXCEPT !.pipe = Append(@, ReplyLine(q, b, id, method, params))]
      [] OTHER      -> [p EXCEPT !.pipe = Append(@, ReplyLine(p, b, id, method, params))]

\* a late answer reaches the pipe after the client has given up waiting
Settled(p, b, id, method, params) ==
    IF b = "late" THEN [p EXCEPT !.pipe = Append(@, ReplyLine(p, "reply", id, method, params))]
    ELSE p

\* an outcome of send_request: an exception with its message, or
\* response.get("result", {})
Raised(cx, msg) ==
    [cx |-> cx, ok |-> FALSE, msg |-> msg,
     result |-> [of |-> "", tools |-> <<>>, has_content |-> FALSE, content |-> <<>>]]
Returned(cx, line) ==
    [cx |-> cx, ok |-> TRUE, msg |-> "",
     result |-> [of |-> line.of, tools |-> line.tools,
                 has_content |-> line.has_content, content |-> line.content]]

\* (mutant) a request that times out terminates the subprocess
ReadResponseKilling(cx, method, id) ==
    IF cx.p.pipe = <<>>
    THEN IF cx.p.state = "running"
         THEN Raised([Log(cx, Event("timeout", cx.name, method, id, 0))
                         EXCEPT !.p.state = "exited", !.c.process = None],
                     "timeout")
         ELSE Raised(Log(cx, Event("eof", cx.name, method, id, 0)), "terminated")
    ELSE LET line == Head(cx.p.pipe)
             read == [cx EXCEPT !.p.pipe = Tail(@)]
             rejected == Log(read, Event("rejected", cx.name, method, id, line.id))
         IN CASE line.kind = "garbage" -> Raised(rejected, "invalid JSON")
              [] line.kind = "error"   -> Raised(rejected, line.message)
              [] OTHER -> Returned(Log(read, Event("response", cx.name, method, id, line.id)),
                                   line)

\* the client side of send_request: select, readline, json.loads, "error"
ReadResponse(cx, method, id) ==
    IF cx.p.pipe = <<>>
    THEN IF cx.p.state = "running"
         THEN Raised(Log(cx, Event("timeout", cx.name, method, id, 0)), "timeout")
         ELSE Raised(Log(cx, Event("eof", cx.name, method, id, 0)), "terminated")
    ELSE LET line == Head(cx.p.pipe)
             read == [cx EXCEPT !.p.pipe = Tail(@)]
             rejected == Log(read, Event("rejected", cx.name, method, id, line.id))
         IN CASE line.kind = "garbage" -> Raised(rejected, "invalid JSON")
              [] line.kind = "error"   -> Raised(rejected, line.message)
              [] OTHER -> Returned(Log(read, Event("response", cx.name, method, id, line.id)),
                                   line)

\* (mutant) the counter stops at 1
KeepRequestId(c) == [c EXCEPT !.request_id = 1]

\* MCPClient.get_next_request_id
get_next_request_id(c) == [c EXCEPT !.request_id = @ + 1]

\* MCPClient.send_request: the set of outcomes [cx, ok, result, msg]
send_request(cx, method, params) ==
    IF ~Running(cx)
    THEN {Raised(cx, "not running")}
    ELSE IF cx.c.request_id >= MaxRequestId THEN {}
    ELSE LET c1 == get_next_request_id(cx.c)
             id == c1.request_id
             sent == Log([cx EXCEPT !.c = c1], Event("request", cx.name, method, id, 0))
         IN { LET r == ReadResponse([sent EXCEPT !.p = Reacted(@, b, id, method, params),
                                                 !.faults = @ + Cost(b)],
                                    method, id)
              IN [r EXCEPT !.cx.p = Settled(@, b, id, method, params)]
              : b \in Behaviours(cx, method) }

\* MCPClient.send_notification: one line, no id, no response awaited
send_notification(cx, method) ==
    IF ~Running(cx) THEN cx
    ELSE Log([cx EXCEPT !.p.initialized = (@ \/ method = "notifications/initialized")],
             Event("notify", cx.name, method, 0, 0))

\* (mutant) the outcome of the initialize request is not looked at and no
\* notification is written
InitializeUnchecked(cx) ==
    { [cx |-> [r.cx EXCEPT !.c.is_connected = TRUE], ret |-> TRUE]
      : r \in send_request(cx, "initialize", NoParams) }

\* MCPClient.initialize: outcomes [cx, ret]
initialize(cx) ==
    { IF r.ok
      THEN [cx |-> [send_notification(r.cx, "notifications/initialized")
                        EXCEPT !.c.is_connected = TRUE],
            ret |-> TRUE]
      ELSE [cx |-> r.cx, ret |-> FALSE]
      : r \in send_request(cx, "initialize", NoParams) }

\* MCPClient.list_tools: outcomes [cx, tools]; tools is the list of the
\* names of the MCPTool objects built, each with server_name = cx.name
list_tools(cx) ==
    { IF r.ok
      THEN [cx |-> [r.cx EXCEPT !.c.tools = @ \cup Range(r.result.tools)],
            tools |-> r.result.tools]
      ELSE [cx |-> r.cx, tools |-> <<>>]
      : r \in send_request(cx, "tools/list", NoParams) }

\* the value MCPClient.call_tool makes of a result
NoValue == [kind |-> "none", text |-> ""]

Unwrap(result) ==
    IF result.has_content
    THEN IF Len(result.content) > 0
         THEN [kind |-> "text", text |-> result.content[1]]
         ELSE [kind |-> "str", text |-> "[]"]
    ELSE [kind |-> "raw", text |-> result.of]

\* (mutant) a tools/call that failed is sent a second time
CallToolRetrying(cx, tool_name, arguments) ==
    IF tool_name \notin cx.c.tools
    THEN {[cx |-> cx, ok |-> FALSE, value |-> NoValue, exc |-> "ValueError"]}
    ELSE UNION {
           IF r.ok
           THEN {[cx |-> r.cx, ok |-> TRUE, value |-> Unwrap(r.result), exc |-> None]}
           ELSE { IF r2.ok
                  THEN [cx |-> r2.cx, ok |-> TRUE, value |-> Unwrap(r2.result), exc |-> None]
                  ELSE [cx |-> r2.cx, ok |-> FALSE, value |-> NoValue, exc |-> "RuntimeError"]
                  : r2 \in send_request(r.cx, "tools/call", CallParams(tool_name, arguments)) }
           : r \in send_request(cx, "tools/call", CallParams(tool_name, arguments)) }

\* MCPClient.call_tool: outcomes [cx, ok, value, exc]
call_tool(cx, tool_name, arguments) ==
    IF tool_name \notin cx.c.tools
    THEN {[cx |-> cx, ok |-> FALSE, value |-> NoValue, exc |-> "ValueError"]}
    ELSE { IF r.ok
           THEN [cx |-> r.cx, ok |-> TRUE, value |-> Unwrap(r.result), exc |-> None]
           ELSE [cx |-> r.cx, ok |-> FALSE, value |-> NoValue, exc |-> "RuntimeError"]
           : r \in send_request(cx, "tools/call", CallParams(tool_name, arguments)) }

\* "Unknown method" in str(e) or "method not found" in str(e).lower()
IsMethodNotFound(msg) == msg \in {"Method not found", "Unknown method"}

Heartbeat(cx) == [cx EXCEPT !.c.last_heartbeat = Now]

\* MCPClient.ping: outcomes [cx, ret]
ping(cx) ==
    IF ~Running(cx)
    THEN {[cx |-> cx, ret |-> FALSE]}
    ELSE UNION {
           IF r.ok THEN {[cx |-> Heartbeat(r.cx), ret |-> TRUE]}
           ELSE IF IsMethodNotFound(r.msg)
                THEN { IF r2.ok THEN [cx |-> Heartbeat(r2.cx), ret |-> TRUE]
                       ELSE [cx |-> r2.cx, ret |-> FALSE]
                       : r2 \in send_request(r.cx, "tools/list", NoParams) }
                ELSE {[cx |-> r.cx, ret |-> FALSE]}
           : r \in send_request(cx, "ping", NoParams) }

\* MCPClient.start_server: outcomes [cx, ret].  Popen may raise
\* FileNotFoundError, the process may exit during the startup probe, or
\* it is running when the probe ends
start_server(cx) ==
    IF Running(cx) THEN {[cx |-> cx, ret |-> TRUE]}
    ELSE LET spawned == Log([cx EXCEPT !.c.process = Popen, !.p.pipe = <<>>,
                                      !.p.initialized = FALSE],
                            Event("spawn", cx.name, "", 0, 0))
         IN {[cx |-> [spawned EXCEPT !.p.state = "running"], ret |-> TRUE]}
            \cup (IF cx.faults < MaxFaults
                  THEN {[cx |-> Log([cx EXCEPT !.faults = @ + 1],
                                    Event("exec_failed", cx.name, "", 0, 0)),
                         ret |-> FALSE],
                        [cx |-> [spawned EXCEPT !.p.state = "exited", !.faults = @ + 1],
                         ret |-> FALSE]}
                  ELSE {})

\* MCPClient.stop_server: terminate, wait, kill; the handle and with it the
\* pipes of the process are dropped
stop_server(cx) ==
    IF cx.c.process = None THEN cx
    ELSE [Log(cx, Event("terminate", cx.name, cx.p.state, 0, 0))
             EXCEPT !.p.state = "exited", !.p.pipe = <<>>, !.p.initialized = FALSE,
                    !.c.process = None, !.c.is_connected = FALSE]

\* MCPClient.disconnect
disconnect(cx) ==
    [stop_server(cx) EXCEPT !.c.tools = {}, !.c.is_connected = FALSE]

\* (mutant) a handshake that failed leaves the subprocess as it is
ConnectLeavingProcess(cx) ==
    UNION {
      IF ~s.ret THEN {s}
      ELSE UNION {
             IF ~i.ret THEN {[cx |-> i.cx, ret |-> FALSE]}
             ELSE {[cx |-> l.cx, ret |-> TRUE] : l \in list_tools(i.cx)}
             : i \in initialize(s.cx) }
      : s \in start_server(cx) }

\* MCPClient.connect of an enabled server: start, initialize, list tools
StartAndInitialize(cx) ==
    UNION {
      IF ~s.ret THEN {s}
      ELSE UNION {
             IF ~i.ret THEN {[cx |-> stop_server(i.cx), ret |-> FALSE]}
             ELSE {[cx |-> l.cx, ret |-> TRUE] : l \in list_tools(i.cx)}
             : i \in initialize(s.cx) }
      : s \in start_server(cx) }

\* (mutant) the enabled flag is not looked at
ConnectAlsoDisabled(cx, enabled) == StartAndInitialize(cx)

\* (mutant) a connect that found no tools reports failure
ConnectRequiringTools(cx, enabled) ==
    IF ~enabled THEN {[cx |-> cx, ret |-> FALSE]}
    ELSE {[r EXCEPT !.ret = @ /\ r.cx.c.tools # {}] : r \in StartAndInitialize(cx)}

\* MCPClient.connect: outcomes [cx, ret]
connect(cx, enabled) ==
    IF ~enabled THEN {[cx |-> cx, ret |-> FALSE]}
    ELSE StartAndInitialize(cx)

-----------------------------------------------------------------------------
(* MCPToolManager.  A manager state st is the record of its fields, the    *)
(* subprocesses, the fault count and the I/O log of the running handler.   *)

EmptyMap == [k \in {} |-> None]

\* the entry MCPToolManager.__init__ makes for a configured server
InitialStatus ==
    [connected |-> FALSE, last_check |-> None, error |-> None, tools_count |-> 0]

ConfigOf(configs, s) == CHOOSE cfg \in Range(configs) : cfg.name = s

\* the connection of client c of server s, and a connection put back
Cx(st, s, c) ==
    [name |-> s, c |-> c, p |-> st.proc[s], faults |-> st.faults, io |-> st.io]
PutProcess(st, cx) ==
    [st EXCEPT !.proc[cx.name] = cx.p, !.faults = cx.faults, !.io = cx.io]
PutClient(st, cx) ==
    [PutProcess(st, cx) EXCEPT !.clients[cx.name] = cx.c]
\* self.clients[name] = client
StoreClient(st, cx) ==
    [PutProcess(st, cx) EXCEPT
        !.clients = With(@, cx.name, cx.c),
        !.clients_order = IF cx.name \in DOMAIN st.clients THEN @ ELSE Append(@, cx.name)]

OwnedKeys(reg, s) == {k \in DOMAIN reg : reg[k].server_name = s}

\* (mutant) the name conflict is not handled: always the bare name
RegistryKeyBare(reg, s, name) == name

\* the key under which _update_tools_from_server stores a listed tool
RegistryKey(reg, s, name) ==
    IF name \in DOMAIN reg THEN PrefixedName(s, name) ELSE name

\* the "for tool in tools" loop of _update_tools_from_server
RECURSIVE AddTools(_, _, _)
AddTools(reg, s, tools) ==
    IF tools = <<>> THEN reg
    ELSE LET key == RegistryKey(reg, s, Head(tools))
         IN AddTools(With(reg, key, [name |-> key, server_name |-> s]), s, Tail(tools))

\* MCPToolManager._update_tools_from_server: the set of states after it
update_tools_from_server(st, s) ==
    IF s \notin DOMAIN st.clients THEN {st}
    ELSE LET removed == Without(st.all_tools, OwnedKeys(st.all_tools, s))
         IN { [PutClient(st, l.cx) EXCEPT
                  !.all_tools = AddTools(removed, s, l.tools),
                  !.server_status[s].tools_count = Len(l.tools),
                  !.io = Append(l.cx.io, Event("listed", s, "", Len(l.tools), 0))]
              : l \in list_tools(Cx(st, s, st.clients[s])) }

\* MCPToolManager._connect_server: outcomes [st, ret]
connect_server(st, cfg) ==
    LET s == cfg.name
        st1 == IF s \in DOMAIN st.clients
               THEN PutClient(st, disconnect(Cx(st, s, st.clients[s])))
               ELSE st
    IN UNION {
         IF r.ret
         THEN {[st |-> u, ret |-> TRUE] : u \in update_tools_from_server(StoreClient(st1, r.cx), s)}
         ELSE {[st |-> PutProcess(st1, r.cx), ret |-> FALSE]}
         : r \in connect(Cx(st1, s, NewClient), cfg.enabled) }

\* the orders in which the pool's workers can take the connection lock
Orders(n) ==
    {o \in [1..n -> 1..n] : \A i, j \in 1..n : i # j => o[i] # o[j]}

\* connect_all_servers from the k-th worker on: outcomes [st, results]
RECURSIVE ConnectFrom(_, _, _, _, _)
ConnectFrom(st, configs, order, k, results) ==
    IF k > Len(order) THEN {[st |-> st, results |-> results]}
    ELSE LET cfg == configs[order[k]]
         IN UNION {
              ConnectFrom([r.st EXCEPT !.server_status[cfg.name].connected = r.ret,
                                       !.server_status[cfg.name].last_check = Now],
                          configs, order, k + 1, With(results, cfg.name, r.ret))
              : r \in connect_server(st, cfg) }

\* MCPToolManager.connect_all_servers: outcomes [st, results]
connect_all_servers(st, configs) ==
    UNION { ConnectFrom(st, configs, o, 1, EmptyMap) : o \in Orders(Len(configs)) }

\* MCPToolManager.disconnect_all_servers
RECURSIVE DisconnectEach(_, _)
DisconnectEach(st, names) ==
    IF names = <<>> THEN st
    ELSE DisconnectEach(PutClient(st, disconnect(Cx(st, Head(names), st.clients[Head(names)]))),
                        Tail(names))

\* (mutant) the aggregate registry is not cleared
DisconnectAllKeepingTools(st) ==
    [DisconnectEach(st, st.clients_order) EXCEPT
        !.clients = EmptyMap,
        !.clients_order = <<>>,
        !.server_status = [s \in DOMAIN @ |-> [@[s] EXCEPT !.connected = FALSE,
                                                           !.tools_count = 0]]]

disconnect_all_servers(st) ==
    [DisconnectEach(st, st.clients_order) EXCEPT
        !.clients = EmptyMap,
        !.clients_order = <<>>,
        !.all_tools = EmptyMap,
        !.server_status = [s \in DOMAIN @ |-> [@[s] EXCEPT !.connected = FALSE,
                                                           !.tools_count = 0]]]

\* (mutant) a call that failed marks the server's status as not connected
DelegateMarkingFailure(st, server_name, name, arguments) ==
    IF server_name \notin DOMAIN st.clients
    THEN {[st |-> st, ok |-> FALSE, value |-> NoValue, exc |-> "NotConnected"]}
    ELSE { [st |-> IF r.ok THEN PutClient(st, r.cx)
                   ELSE [PutClient(st, r.cx) EXCEPT
                            !.server_status[server_name].connected = FALSE,
                            !.server_status[server_name].error = r.exc],
            ok |-> r.ok, value |-> r.value, exc |-> r.exc]
           : r \in call_tool(Cx(st, server_name, st.clients[server_name]),
                             name, arguments) }

\* the tail of MCPToolManager.call_tool: the client of server_name, if
\* there is one, calls the tool
Delegate(st, server_name, name, arguments) ==
    IF server_name \notin DOMAIN st.clients
    THEN {[st |-> st, ok |-> FALSE, value |-> NoValue, exc |-> "NotConnected"]}
    ELSE { [st |-> PutClient(st, r.cx), ok |-> r.ok, value |-> r.value, exc |-> r.exc]
           : r \in call_tool(Cx(st, server_name, st.clients[server_name]),
                             name, arguments) }

\* (mutant) a name that is not in the registry is tried on every client
CallToolUnchecked(st, tool_name, arguments) ==
    IF tool_name \notin DOMAIN st.all_tools
    THEN IF st.clients_order = <<>>
         THEN {[st |-> st, ok |-> FALSE, value |-> NoValue, exc |-> "ToolNotFound"]}
         ELSE UNION {Delegate(st, s, tool_name, arguments) : s \in DOMAIN st.clients}
    ELSE Delegate(st, st.all_tools[tool_name].server_name,
                  st.all_tools[tool_name].name, arguments)

\* MCPToolManager.call_tool: outcomes [st, ok, value, exc]
manager_call_tool(st, tool_name, arguments) ==
    IF tool_name \notin DOMAIN st.all_tools
    THEN {[st |-> st, ok |-> FALSE, value |-> NoValue, exc |-> "ToolNotFound"]}
    ELSE LET tool == st.all_tools[tool_name]
             server_name == tool.server_name
         IN Delegate(st, server_name, tool.name, arguments)

\* (mutant) a failed ping is recorded and nothing is restarted
CheckServerNoRestart(st, configs, s) ==
    { LET pinged == Log(r.cx, Event("ping", s, IF r.ret THEN "ok" ELSE "failed", 0, 0))
          st1 == PutClient(st, pinged)
      IN IF r.ret
         THEN [st1 EXCEPT !.server_status[s].connected = TRUE,
                          !.server_status[s].error = None,
                          !.server_status[s].last_check = Now]
         ELSE [st1 EXCEPT !.server_status[s].connected = FALSE,
                          !.server_status[s].error = "Ping failed",
                          !.server_status[s].last_check = Now]
      : r \in ping(Cx(st, s, st.clients[s])) }

\* (mutant) a ping that succeeded is followed by a fetch of the tools
CheckServerRefreshing(st, configs, s) ==
    UNION {
      LET pinged == Log(r.cx, Event("ping", s, IF r.ret THEN "ok" ELSE "failed", 0, 0))
          st1 == PutClient(st, pinged)
      IN IF r.ret
         THEN {[u EXCEPT !.server_status[s].connected = TRUE,
                         !.server_status[s].error = None,
                         !.server_status[s].last_check = Now]
               : u \in update_tools_from_server(st1, s)}
         ELSE LET st2 == [st1 EXCEPT !.server_status[s].connected = FALSE,
                                     !.server_status[s].error = "Ping failed"]
              IN IF ConfigOf(configs, s).auto_restart
                 THEN {[x.st EXCEPT !.server_status[s].last_check = Now]
                       : x \in connect_server(st2, ConfigOf(configs, s))}
                 ELSE {[st2 EXCEPT !.server_status[s].last_check = Now]}
      : r \in ping(Cx(st, s, st.clients[s])) }

\* one iteration of the loop of _perform_health_check: the states after it
CheckServer(st, configs, s) ==
    UNION {
      LET pinged == Log(r.cx, Event("ping", s, IF r.ret THEN "ok" ELSE "failed", 0, 0))
          st1 == PutClient(st, pinged)
      IN IF r.ret
         THEN {[st1 EXCEPT !.server_status[s].connected = TRUE,
                           !.server_status[s].error = None,
                           !.server_status[s].last_check = Now]}
         ELSE LET st2 == [st1 EXCEPT !.server_status[s].connected = FALSE,
                                     !.server_status[s].error = "Ping failed"]
              IN IF ConfigOf(configs, s).auto_restart
                 THEN {[x.st EXCEPT !.server_status[s].last_check = Now]
                       : x \in connect_server(st2, ConfigOf(configs, s))}
                 ELSE {[st2 EXCEPT !.server_status[s].last_check = Now]}
      : r \in ping(Cx(st, s, st.clients[s])) }

\* MCPToolManager._perform_health_check: "for server_name, client in
\* self.clients.items()"
RECURSIVE CheckEach(_, _, _)
CheckEach(st, configs, names) ==
    IF names = <<>> THEN {st}
    ELSE UNION {CheckEach(x, configs, Tail(names)) : x \in CheckServer(st, configs, Head(names))}

perform_health_check(st, configs) == CheckEach(st, configs, st.clients_order)

\* MCPToolManager.refresh_tools
RECURSIVE RefreshEach(_, _)
RefreshEach(st, names) ==
    IF names = <<>> THEN {st}
    ELSE UNION {RefreshEach(x, Tail(names)) : x \in update_tools_from_server(st, Head(names))}

refresh_tools(st) == RefreshEach(st, st.clients_order)

-----------------------------------------------------------------------------
(* The health-check thread.  A thread is at the head of the loop of        *)
(* _health_check_loop (testing the flag, or asleep) or inside a pass, with *)
(* the position of its iterator over self.clients and the size the dict    *)
(* had when the iterator was made; server is the server_name of the        *)
(* iteration the thread is in.                                             *)

NoThread == 0
AtLoop == [pc |-> "loop", pos |-> 0, used |-> 0, server |-> ""]
NewThreadId(threads) ==
    CHOOSE i \in 1..(Cardinality(DOMAIN threads) + 1) : i \notin DOMAIN threads

\* (mutant) a thread is started whether or not one is running
StartHealthCheckAgain(h) ==
    LET id == NewThreadId(h.threads)
    IN [h EXCEPT !.running = TRUE, !.thread = id, !.threads = With(@, id, AtLoop)]

\* MCPToolManager.start_health_check on h = [running, thread, threads]
start_health_check(h) ==
    IF h.running THEN h
    ELSE LET id == NewThreadId(h.threads)
         IN [h EXCEPT !.running = TRUE, !.thread = id, !.threads = With(@, id, AtLoop)]

\* "for server_name, client in self.clients.items()": the iterator made
\* when a pass begins; its next() raises RuntimeError when the size of the
\* dict is not the size it had then
Iterator(order) == [pc |-> "checking", pos |-> 1, used |-> Len(order), server |-> ""]
ChangedSize(th, order) == Len(order) # th.used
Exhausted(th, order) == th.pos > Len(order)

\* (mutant) an exception of a pass ends the thread
LoopDies(threads, t) == Without(threads, {t})

\* "except Exception" of _health_check_loop: log, sleep, test the flag again
LoopCatches(threads, t) == [threads EXCEPT ![t] = AtLoop]

-----------------------------------------------------------------------------
(* Executor.execute_plan, as far as it dispatches plan steps to the manager *)

\* a built-in tool of the Executor (self.tools)
BuiltinTools == {"read_file"}
\* the tool names a plan step may carry
PlanTools == {"search", "B_search", "nosuch", "read_file"}
\* the plans the planner may hand to execute_plan
Plans ==
    {plan \in {<<"search">>, <<"search", "search">>, <<"B_search", "search">>,
               <<"nosuch", "read_file">>, <<"read_file", "search">>} :
        Len(plan) <= MaxPlanLen /\ Range(plan) \subseteq PlanTools}

\* f"执行 MCP 工具 {tool_name} 时出错: {e}"
McpError(exc) == "MCP tool error: " \o exc

StepResult(step, tool, status, output, error) ==
    [step |-> step, tool |-> tool, status |-> status, output |-> output,
     error |-> error]

\* one iteration of the loop of execute_plan: outcomes [st, result].  A
\* built-in tool returns its output, or an error text, or raises; the
\* Executor of this model has an MCP manager
execute_step(st, step_num, tool_name, arguments) ==
    LET st0 == [st EXCEPT !.io = Append(@, Event("step", "", tool_name, step_num, 0))]
        failed(error) == StepResult(step_num, tool_name, "failed", NoValue, error)
    IN IF tool_name = ""
       THEN {[st |-> st0, result |-> failed("tool name is empty")]}
       ELSE IF tool_name \in BuiltinTools
       THEN {[st |-> st0,
              result |-> StepResult(step_num, tool_name, "completed",
                                    [kind |-> "text", text |-> "output"], "")],
             [st |-> st0, result |-> failed("tool error")]}
       ELSE IF tool_name \in DOMAIN st.all_tools
       THEN { [st |-> r.st,
               result |-> IF r.ok
                          THEN StepResult(step_num, tool_name, "completed", r.value, "")
                          ELSE failed(McpError(r.exc))]
              : r \in manager_call_tool(st0, tool_name, arguments) }
       ELSE {[st |-> st0, result |-> failed("")]}

\* (mutant) the first failed step ends the run
RECURSIVE ExecuteFromStopping(_, _, _, _)
ExecuteFromStopping(st, plan, i, detailed_results) ==
    IF i > Len(plan) THEN {[st |-> st, detailed_results |-> detailed_results]}
    ELSE UNION {
           IF r.result.status = "failed"
           THEN {[st |-> r.st, detailed_results |-> Append(detailed_results, r.result)]}
           ELSE ExecuteFromStopping(r.st, plan, i + 1, Append(detailed_results, r.result))
           : r \in UNION {execute_step(st, i, plan[i], a) : a \in Arguments} }

\* "for i, task in enumerate(plan)" from step i on
RECURSIVE ExecuteFrom(_, _, _, _)
ExecuteFrom(st, plan, i, detailed_results) ==
    IF i > Len(plan) THEN {[st |-> st, detailed_results |-> detailed_results]}
    ELSE UNION {
           ExecuteFrom(r.st, plan, i + 1, Append(detailed_results, r.result))
           : r \in UNION {execute_step(st, i, plan[i], a) : a \in Arguments} }

\* Executor.execute_plan: outcomes [st, detailed_results]
execute_plan(st, plan) == ExecuteFrom(st, plan, 1, <<>>)

-----------------------------------------------------------------------------
(* The state machine *)

\* the manager state at the start of a handler: an empty I/O log
St ==
    [clients |-> clients, clients_order |-> clients_order, all_tools |-> all_tools,
     server_status |-> server_status, proc |-> proc, faults |-> faults, io |-> <<>>]

\* what a step records in last: the handler, its argument, whether it
\* returned (ok) or raised (exc), what it returned, and its I/O; for
\* execute_plan the plan and the list of step results it returned
Record(op, arg, ok, value, exc, results, io) ==
    [op |-> op, arg |-> arg, ok |-> ok, value |-> value, exc |-> exc,
     results |-> results, io |-> io, plan |-> <<>>, steps |-> <<>>]
Did(op) == Record(op, "", TRUE, NoValue, None, EmptyMap, <<>>)

\* the variables take the fields of st; the handler's record goes to last
Becomes(st, op, arg, ok, value, exc, results) ==
    /\ clients' = st.clients
    /\ clients_order' = st.clients_order
    /\ all_tools' = st.all_tools
    /\ server_status' = st.server_status
    /\ proc' = st.proc
    /\ faults' = st.faults
    /\ last' = Record(op, arg, ok, value, exc, results, st.io)

\* the configuration the manager is built from: a server that is restarted
\* automatically, one that is not, and a disabled one
Configs ==
    { <<[name |-> "A", auto_restart |-> TRUE, enabled |-> TRUE],
        [name |-> "B", auto_restart |-> FALSE, enabled |-> TRUE],
        [name |-> "C", auto_restart |-> TRUE, enabled |-> FALSE]>> }

\* the caller's thread is in no handler
Idle == [pc |-> "idle", results |-> EmptyMap]

\* MCPToolManager.__init__
Init ==
    /\ server_configs \in Configs
    /\ clients = EmptyMap
    /\ clients_order = <<>>
    /\ all_tools = EmptyMap
    /\ server_status = [s \in Servers |-> InitialStatus]
    /\ health_check_running = FALSE
    /\ health_check_thread = NoThread
    /\ health_threads = EmptyMap
    /\ joining = FALSE
    /\ \E program \in Programs : proc = [s \in Servers |-> NoProcess(program[s])]
    /\ faults = 0
    /\ connection_lock = None
    /\ futures = EmptyMap
    /\ caller = Idle
    /\ in_flight = {}
    /\ last = Did("__init__")

ConnectAll ==
    /\ ~joining
    /\ \E r \in connect_all_servers(St, server_configs) :
          Becomes(r.st, "connect_all_servers", "", TRUE, NoValue, None, r.results)
    /\ UNCHANGED <<server_configs, workers, health>>

DisconnectAll ==
    /\ ~joining
    /\ Becomes(disconnect_all_servers(St), "disconnect_all_servers", "", TRUE,
               NoValue, None, EmptyMap)
    /\ UNCHANGED <<server_configs, workers, health>>

CallTool ==
    /\ ~joining
    /\ \E tool_name \in CallNames, arguments \in Arguments :
          \E r \in manager_call_tool(St, tool_name, arguments) :
             Becomes(r.st, "call_tool", tool_name, r.ok, r.value, r.exc, EmptyMap)
    /\ UNCHANGED <<server_configs, workers, health>>

RefreshTools ==
    /\ ~joining
    /\ \E x \in refresh_tools(St) :
          Becomes(x, "refresh_tools", "", TRUE, NoValue, None, EmptyMap)
    /\ UNCHANGED <<server_configs, workers, health>>

ExecutePlan ==
    /\ ~joining
    /\ \E plan \in Plans : \E r \in execute_plan(St, plan) :
          /\ clients' = r.st.clients
          /\ clients_order' = r.st.clients_order
          /\ all_tools' = r.st.all_tools
          /\ server_status' = r.st.server_status
          /\ proc' = r.st.proc
          /\ faults' = r.st.faults
          /\ last' = [Record("execute_plan", "", TRUE, NoValue, None, EmptyMap, r.st.io)
                         EXCEPT !.plan = plan, !.steps = r.detailed_results]
    /\ UNCHANGED <<server_configs, workers, health>>

\* one pass of _health_check_loop, nothing else running in between
HealthCheck ==
    /\ health_check_running
    /\ \E t \in DOMAIN health_threads : health_threads[t].pc = "loop"
    /\ \E x \in perform_health_check(St, server_configs) :
          Becomes(x, "_perform_health_check", "", TRUE, NoValue, None, EmptyMap)
    /\ UNCHANGED <<server_configs, workers, health>>

\* the thread finds the flag set and begins a pass
TickBegin ==
    /\ health_check_running
    /\ \E t \in DOMAIN health_threads :
          /\ health_threads[t].pc = "loop"
          /\ health_threads' = [health_threads EXCEPT ![t] = Iterator(clients_order)]
    /\ last' = Did("_perform_health_check: begin")
    /\ UNCHANGED <<server_configs, workers, clients, clients_order, all_tools, server_status,
                   health_check_running, health_check_thread, joining, proc, faults>>

\* the next step of a pass: the iterator raises, or it is exhausted and
\* the pass ends, or the next server is checked
TickNext ==
    \E t \in DOMAIN health_threads :
       LET th == health_threads[t]
       IN /\ th.pc = "checking"
          /\ IF ChangedSize(th, clients_order)
             THEN /\ health_threads' = LoopCatches(health_threads, t)
                  /\ last' = [Did("_health_check_loop") EXCEPT !.exc = "RuntimeError"]
                  /\ UNCHANGED <<clients, clients_order, all_tools, server_status,
                                 proc, faults>>
             ELSE IF Exhausted(th, clients_order)
             THEN /\ health_threads' = [health_threads EXCEPT ![t] = AtLoop]
                  /\ last' = Did("_perform_health_check: end")
                  /\ UNCHANGED <<clients, clients_order, all_tools, server_status,
                                 proc, faults>>
             ELSE /\ \E x \in CheckServer(St, server_configs, clients_order[th.pos]) :
                        Becomes(x, "_perform_health_check", clients_order[th.pos],
                                TRUE, NoValue, None, EmptyMap)
                  /\ health_threads' = [health_threads EXCEPT ![t].pos = @ + 1]
          /\ UNCHANGED <<server_configs, workers, health_check_running, health_check_thread,
                         joining>>

\* the thread finds the flag cleared and returns from _health_check_loop
ThreadExits ==
    /\ ~health_check_running
    /\ \E t \in DOMAIN health_threads :
          /\ health_threads[t].pc = "loop"
          /\ health_threads' = Without(health_threads, {t})
    /\ last' = Did("_health_check_loop: return")
    /\ UNCHANGED <<server_configs, workers, clients, clients_order, all_tools, server_status,
                   health_check_running, health_check_thread, joining, proc, faults>>

StartHealthCheck ==
    /\ ~joining /\ caller = Idle
    /\ LET h == start_health_check([running |-> health_check_running,
                                    thread |-> health_check_thread,
                                    threads |-> health_threads])
       IN /\ health_check_running' = h.running
          /\ health_check_thread' = h.thread
          /\ health_threads' = h.threads
    /\ last' = Did("start_health_check")
    /\ UNCHANGED <<server_configs, workers, clients, clients_order, all_tools, server_status,
                   joining, proc, faults>>

\* what the thread of the handle is doing: "" when there is none
ThreadPc ==
    IF health_check_thread \in DOMAIN health_threads
    THEN health_threads[health_check_thread].pc ELSE ""

\* stop_health_check: clear the flag and join the thread of the handle; the
\* call returns at once when there is no such thread or it has ended
StopHealthCheck ==
    /\ ~joining /\ caller = Idle
    /\ health_check_running' = FALSE
    /\ IF health_check_thread \in DOMAIN health_threads
       THEN /\ joining' = TRUE
            /\ last' = [Did("stop_health_check: join") EXCEPT !.arg = ThreadPc]
       ELSE /\ joining' = FALSE
            /\ last' = Did("stop_health_check")
    /\ UNCHANGED <<server_configs, workers, clients, clients_order, all_tools, server_status,
                   health_check_thread, health_threads, proc, faults>>

\* the thread has ended: join and with it stop_health_check return
JoinReturns ==
    /\ joining
    /\ health_check_thread \notin DOMAIN health_threads
    /\ joining' = FALSE
    /\ last' = [Did("stop_health_check") EXCEPT !.arg = "joined"]
    /\ UNCHANGED <<server_configs, workers, clients, clients_order, all_tools, server_status,
                   health_check_running, health_check_thread, health_threads,
                   proc, faults>>

\* a server process exits on its own
ProcessExits ==
    /\ \E s \in Servers :
          /\ proc[s].state = "running"
          /\ faults < MaxFaults
          /\ proc' = [proc EXCEPT ![s].state = "exited"]
    /\ faults' = faults + 1
    /\ last' = Did("process exits")
    /\ UNCHANGED <<server_configs, workers, clients, clients_order, all_tools, server_status,
                   health>>

Next ==
    \/ ConnectAll
    \/ DisconnectAll
    \/ CallTool
    \/ RefreshTools
    \/ ExecutePlan
    \/ HealthCheck
    \/ StartHealthCheck
    \/ StopHealthCheck
    \/ ThreadExits
    \/ JoinReturns
    \/ ProcessExits

Spec == Init /\ [][Next]_vars

\* the health-check thread and the caller's thread, interleaved
NextThreads ==
    \/ ConnectAll
    \/ DisconnectAll
    \/ StartHealthCheck
    \/ StopHealthCheck
    \/ TickBegin
    \/ TickNext
    \/ ThreadExits
    \/ JoinReturns
    \/ ProcessExits

SpecThreads == Init /\ [][NextThreads]_vars

-----------------------------------------------------------------------------
(* The threads step by step.  The caller's thread, the pool threads of     *)
(* connect_all_servers (one per submitted config, named by its server) and *)
(* the health-check thread take the steps of their handlers in any order.  *)

HealthThread == "health"
CallerThread == "main"

\* (mutant) the lock is taken whether or not it is held
AcquireAlways(lock, by) == TRUE

\* "with self.connection_lock": a threading.Lock is taken when it is free
CanAcquire(lock, by) == lock = None

\* a request that was written and whose response was not read: the thread,
\* the server, the request, the registry key the caller gave, how the
\* subprocess reacts, and whether the client was disconnected since
Pending(by, server, method, id, arg, params, b) ==
    [by |-> by, server |-> server, method |-> method, id |-> id, arg |-> arg,
     params |-> params, b |-> b, dead |-> FALSE]

\* the requests pending on clients that disconnect() has stopped
Orphaned(pending, S) ==
    {[r EXCEPT !.dead = @ \/ r.server \in S] : r \in pending}

\* the first half of send_request, up to the flush of the request line:
\* outcomes [cx, id, b]
WriteRequest(cx, method, params) ==
    IF cx.c.request_id >= MaxRequestId THEN {}
    ELSE LET c1 == get_next_request_id(cx.c)
             id == c1.request_id
             sent == Log([cx EXCEPT !.c = c1], Event("request", cx.name, method, id, 0))
         IN { [cx |-> [sent EXCEPT !.p = Reacted(@, b, id, method, params),
                                   !.faults = @ + Cost(b)],
               id |-> id, b |-> b]
              : b \in Behaviours(cx, method) }

\* the second half of send_request: select, readline and what follows; the
\* line read is the first one on stdout, whoever it answers
ReadPending(cx, r) ==
    LET x == ReadResponse(cx, r.method, r.id)
    IN [x EXCEPT !.cx.p = Settled(@, r.b, r.id, r.method, r.params)]

\* the status writes of _perform_health_check after client.ping()
PingResult(st, s, ret) ==
    IF ret
    THEN [st EXCEPT !.server_status[s].connected = TRUE,
                    !.server_status[s].error = None]
    ELSE [st EXCEPT !.server_status[s].connected = FALSE,
                    !.server_status[s].error = "Ping failed"]

\* the health thread after client.ping() returned ret for server s: it
\* goes on to _connect_server, or writes last_check and takes the next server
AfterPing(t, st, s, ret) ==
    LET th == health_threads[t]
        restart == ~ret /\ ConfigOf(server_configs, s).auto_restart
        st1 == PingResult(st, s, ret)
    IN /\ Becomes(IF restart THEN st1
                  ELSE [st1 EXCEPT !.server_status[s].last_check = Now],
                  "_perform_health_check: ping", s, ret, NoValue, None, EmptyMap)
       /\ health_threads' =
            [health_threads EXCEPT ![t] =
                IF restart THEN [th EXCEPT !.pc = "reconnect", !.server = s]
                ELSE [th EXCEPT !.pc = "checking", !.pos = @ + 1, !.server = ""]]

\* (mutant) connect_all_servers returns when one future is done
AnyCompleted(fs) == \E s \in DOMAIN fs : fs[s].pc = "collected"

\* the as_completed loop has handled every future
AllCompleted(fs) == \A s \in DOMAIN fs : fs[s].pc = "collected"

\* _connect_server with a subprocess that starts and answers the handshake
\* and the tool listing as it should: in the steps of the threads a
\* subprocess misbehaves when it is pinged, called or reconnected by the
\* health check, not when a pool thread connects it
connect_server_steady(st, cfg) ==
    {[r EXCEPT !.st.faults = st.faults]
     : r \in connect_server([st EXCEPT !.faults = MaxFaults], cfg)}

\* connect_all_servers: every config is submitted to the pool
Submit ==
    /\ ~joining /\ caller = Idle
    /\ futures' = [s \in {cfg.name : cfg \in Range(server_configs)} |->
                      [pc |-> "waiting", ret |-> FALSE]]
    /\ caller' = [pc |-> "collecting", results |-> EmptyMap]
    /\ last' = Did("connect_all_servers: submit")
    /\ UNCHANGED <<server_configs, clients, clients_order, all_tools, server_status,
                   health, proc, faults, connection_lock, in_flight>>

\* a pool thread enters "with self.connection_lock" of _connect_server
WorkerAcquire(s) ==
    /\ s \in DOMAIN futures
    /\ futures[s].pc = "waiting"
    /\ CanAcquire(connection_lock, s)
    /\ connection_lock' = s
    /\ futures' = [futures EXCEPT ![s].pc = "locked"]
    /\ last' = [Did("_connect_server: acquire") EXCEPT !.arg = s]
    /\ UNCHANGED <<server_configs, clients, clients_order, all_tools, server_status,
                   health, proc, faults, caller, in_flight>>

WorkerAcquires == \E s \in Servers : WorkerAcquire(s)

\* the body of _connect_server in a pool thread, and the release of the lock
WorkerConnects ==
    /\ \E s \in DOMAIN futures :
          /\ futures[s].pc = "locked"
          /\ \E r \in connect_server_steady(St, ConfigOf(server_configs, s)) :
                /\ Becomes(r.st, "_connect_server", s, r.ret, NoValue, None, EmptyMap)
                /\ futures' = [futures EXCEPT ![s] = [pc |-> "done", ret |-> r.ret]]
          /\ in_flight' = Orphaned(in_flight, {s} \cap DOMAIN clients)
    /\ connection_lock' = None
    /\ UNCHANGED <<server_configs, health, caller>>

\* the body of the as_completed loop for a future that is done
Collect ==
    /\ caller.pc = "collecting"
    /\ \E s \in DOMAIN futures :
          /\ futures[s].pc = "done"
          /\ futures' = [futures EXCEPT ![s].pc = "collected"]
          /\ caller' = [caller EXCEPT !.results = With(@, s, futures[s].ret)]
          /\ server_status' = [server_status EXCEPT ![s].connected = futures[s].ret,
                                                    ![s].last_check = Now]
          /\ last' = [Did("connect_all_servers: collect") EXCEPT !.arg = s]
    /\ UNCHANGED <<server_configs, clients, clients_order, all_tools, health, proc,
                   faults, connection_lock, in_flight>>

\* the pool is shut down and connect_all_servers returns results
ConnectAllReturns ==
    /\ caller.pc = "collecting"
    /\ AllCompleted(futures)
    /\ caller' = Idle
    /\ futures' = EmptyMap
    /\ last' = Record("connect_all_servers", "", TRUE, NoValue, None, caller.results, <<>>)
    /\ UNCHANGED <<server_configs, clients, clients_order, all_tools, server_status,
                   health, proc, faults, connection_lock, in_flight>>

\* disconnect_all_servers in the caller's thread
DisconnectAllUnlocked ==
    /\ ~joining /\ caller = Idle
    /\ Becomes(disconnect_all_servers(St), "disconnect_all_servers", "", TRUE,
               NoValue, None, EmptyMap)
    /\ in_flight' = Orphaned(in_flight, DOMAIN clients)
    /\ UNCHANGED <<server_configs, health, connection_lock, futures, caller>>

\* MCPToolManager.call_tool up to the flush of the request line, or to the
\* exception that is raised before a request is written
CallToolWrites ==
    /\ ~joining /\ caller = Idle
    /\ \E tool_name \in {"search", "nosuch"}, arguments \in Arguments :
          LET raise(exc) ==
                  /\ Becomes(St, "call_tool", tool_name, FALSE, NoValue, exc, EmptyMap)
                  /\ UNCHANGED <<caller, in_flight>>
          IN IF tool_name \notin DOMAIN all_tools THEN raise("ToolNotFound")
             ELSE LET tool == all_tools[tool_name]
                      s == tool.server_name
                  IN IF s \notin DOMAIN clients THEN raise("NotConnected")
                     ELSE IF tool.name \notin clients[s].tools THEN raise("ValueError")
                     ELSE IF ~Running(Cx(St, s, clients[s])) THEN raise("RuntimeError")
                     ELSE \E w \in WriteRequest(Cx(St, s, clients[s]), "tools/call",
                                                CallParams(tool.name, arguments)) :
                             /\ Becomes(PutClient(St, w.cx), "call_tool: request",
                                        tool_name, TRUE, NoValue, None, EmptyMap)
                             /\ caller' = [pc |-> "reading", results |-> EmptyMap]
                             /\ in_flight' = in_flight \cup
                                   {Pending(CallerThread, s, "tools/call", w.id, tool_name,
                                            CallParams(tool.name, arguments), w.b)}
    /\ UNCHANGED <<server_configs, health, connection_lock, futures>>

\* the rest of call_tool: the response is read, or the read fails because
\* the client was disconnected meanwhile
CallToolReads ==
    /\ caller.pc = "reading"
    /\ \E r \in in_flight :
          /\ r.by = CallerThread
          /\ IF r.dead
             THEN Becomes(St, "call_tool", r.arg, FALSE, NoValue, "RuntimeError", EmptyMap)
             ELSE LET x == ReadPending(Cx(St, r.server, clients[r.server]), r)
                  IN Becomes(PutClient(St, x.cx), "call_tool", r.arg, x.ok,
                             IF x.ok THEN Unwrap(x.result) ELSE NoValue,
                             IF x.ok THEN None ELSE "RuntimeError", EmptyMap)
          /\ in_flight' = in_flight \ {r}
    /\ caller' = Idle
    /\ UNCHANGED <<server_configs, health, connection_lock, futures>>

\* client.ping() of the next server of the pass up to the flush of the
\* request line; a client whose process is not running answers at once
PingWrites ==
    /\ \E t \in DOMAIN health_threads :
          LET th == health_threads[t]
          IN /\ th.pc = "checking"
             /\ ~ChangedSize(th, clients_order) /\ ~Exhausted(th, clients_order)
             /\ LET s == clients_order[th.pos]
                    cx == Cx(St, s, clients[s])
                IN IF ~Running(cx)
                   THEN /\ AfterPing(t, PutClient(St, Log(cx, Event("ping", s, "failed", 0, 0))),
                                     s, FALSE)
                        /\ UNCHANGED in_flight
                   ELSE \E w \in WriteRequest(cx, "ping", NoParams) :
                           /\ Becomes(PutClient(St, w.cx), "ping: request", s, TRUE,
                                      NoValue, None, EmptyMap)
                           /\ health_threads' = [health_threads EXCEPT
                                                    ![t].pc = "pinging", ![t].server = s]
                           /\ in_flight' = in_flight \cup
                                 {Pending(HealthThread, s, "ping", w.id, "", NoParams, w.b)}
    /\ UNCHANGED <<server_configs, health_check_running, health_check_thread, joining,
                   connection_lock, futures, caller>>

\* the rest of client.ping(): the response is read; "Method not found" is
\* followed by a tools/list request
PingReads ==
    /\ \E t \in DOMAIN health_threads, r \in in_flight :
          /\ health_threads[t].pc = "pinging"
          /\ r.by = HealthThread
          /\ in_flight' = in_flight \ {r}
          /\ IF r.dead
             THEN AfterPing(t, [St EXCEPT !.io = <<Event("ping", r.server, "failed", 0, 0)>>],
                            r.server, FALSE)
             ELSE LET x == ReadPending(Cx(St, r.server, clients[r.server]), r)
                      done(cx, ret) ==
                          AfterPing(t, PutClient(St, Log(cx, Event("ping", r.server,
                                              IF ret THEN "ok" ELSE "failed", 0, 0))),
                                    r.server, ret)
                  IN IF x.ok THEN done(Heartbeat(x.cx), TRUE)
                     ELSE IF IsMethodNotFound(x.msg)
                     THEN \E r2 \in send_request(x.cx, "tools/list", NoParams) :
                             IF r2.ok THEN done(Heartbeat(r2.cx), TRUE)
                             ELSE done(r2.cx, FALSE)
                     ELSE done(x.cx, FALSE)
    /\ UNCHANGED <<server_configs, health_check_running, health_check_thread, joining,
                   connection_lock, futures, caller>>

\* the health thread enters "with self.connection_lock" of _connect_server
ReconnectAcquires ==
    /\ \E t \in DOMAIN health_threads :
          /\ health_threads[t].pc = "reconnect"
          /\ CanAcquire(connection_lock, HealthThread)
          /\ health_threads' = [health_threads EXCEPT ![t].pc = "locked"]
          /\ last' = [Did("_connect_server: acquire") EXCEPT
                         !.arg = health_threads[t].server]
    /\ connection_lock' = HealthThread
    /\ UNCHANGED <<server_configs, clients, clients_order, all_tools, server_status,
                   health_check_running, health_check_thread, joining, proc, faults,
                   futures, caller, in_flight>>

\* the body of _connect_server in the health thread, the release of the
\* lock, and the write of last_check
ReconnectConnects ==
    /\ \E t \in DOMAIN health_threads :
          LET th == health_threads[t]
              s == th.server
          IN /\ th.pc = "locked"
             /\ \E r \in connect_server(St, ConfigOf(server_configs, s)) :
                   Becomes([r.st EXCEPT !.server_status[s].last_check = Now],
                           "_perform_health_check: reconnect", s, r.ret, NoValue, None,
                           EmptyMap)
             /\ in_flight' = Orphaned(in_flight, {s} \cap DOMAIN clients)
             /\ health_threads' = [health_threads EXCEPT
                                      ![t] = [th EXCEPT !.pc = "checking", !.pos = @ + 1,
                                                        !.server = ""]]
    /\ connection_lock' = None
    /\ UNCHANGED <<server_configs, health_check_running, health_check_thread, joining,
                   futures, caller>>

\* the iterator of the pass raises because the dict changed its size, or
\* it is exhausted and the pass ends
PassEnds ==
    /\ \E t \in DOMAIN health_threads :
          LET th == health_threads[t]
          IN /\ th.pc = "checking"
             /\ IF ChangedSize(th, clients_order)
                THEN /\ health_threads' = LoopCatches(health_threads, t)
                     /\ last' = [Did("_health_check_loop") EXCEPT !.exc = "RuntimeError"]
                ELSE /\ Exhausted(th, clients_order)
                     /\ health_threads' = [health_threads EXCEPT ![t] = AtLoop]
                     /\ last' = Did("_perform_health_check: end")
    /\ UNCHANGED <<server_configs, workers, clients, clients_order, all_tools,
                   server_status, health_check_running, health_check_thread, joining,
                   proc, faults>>

NextLock ==
    \/ Submit
    \/ WorkerAcquires
    \/ WorkerConnects
    \/ Collect
    \/ ConnectAllReturns
    \/ DisconnectAllUnlocked
    \/ CallToolWrites
    \/ CallToolReads
    \/ StartHealthCheck
    \/ TickBegin
    \/ PingWrites
    \/ PingReads
    \/ ReconnectAcquires
    \/ ReconnectConnects
    \/ PassEnds

\* MCPToolManager.__init__ with two enabled servers that both expose search
InitLock ==
    /\ server_configs = <<[name |-> "A", auto_restart |-> TRUE, enabled |-> TRUE],
                          [name |-> "B", auto_restart |-> FALSE, enabled |-> TRUE]>>
    /\ clients = EmptyMap
    /\ clients_order = <<>>
    /\ all_tools = EmptyMap
    /\ server_status = [s \in Servers |-> InitialStatus]
    /\ health_check_running = FALSE
    /\ health_check_thread = NoThread
    /\ health_threads = EmptyMap
    /\ joining = FALSE
    /\ proc = [s \in Servers |->
                 NoProcess(IF s \in {"A", "B"} THEN <<"search">> ELSE <<>>)]
    /\ faults = 0
    /\ connection_lock = None
    /\ futures = EmptyMap
    /\ caller = Idle
    /\ in_flight = {}
    /\ last = Did("__init__")

SpecLock == InitLock /\ [][NextLock]_vars

-----------------------------------------------------------------------------
(* The tool fetch over every listing a server may return: the names of a   *)
(* listing in any order and with repetitions, the servers answering every  *)
(* request.                                                                *)

MaxListing == 3
Listings == UNION {[1..n -> ToolNames] : n \in 0..MaxListing}

\* MCPToolManager.__init__; A and B expose any listing
InitFetch ==
    /\ server_configs \in Configs
    /\ clients = EmptyMap
    /\ clients_order = <<>>
    /\ all_tools = EmptyMap
    /\ server_status = [s \in Servers |-> InitialStatus]
    /\ health_check_running = FALSE
    /\ health_check_thread = NoThread
    /\ health_threads = EmptyMap
    /\ joining = FALSE
    /\ \E a \in Listings, b \in Listings :
          proc = [s \in Servers |->
                    NoProcess(IF s = "A" THEN a ELSE IF s = "B" THEN b ELSE <<>>)]
    /\ faults = MaxFaults
    /\ connection_lock = None
    /\ futures = EmptyMap
    /\ caller = Idle
    /\ in_flight = {}
    /\ last = Did("__init__")

NextFetch ==
    \/ ConnectAll
    \/ RefreshTools
    \/ DisconnectAll

SpecFetch == InitFetch /\ [][NextFetch]_vars

-----------------------------------------------------------------------------
(* What the claims speak of *)

\* the places in the I/O log of the last handler of an event of server s
EventsOf(io, ev, s) == {i \in DOMAIN io : io[i].ev = ev /\ io[i].server = s}
\* the request lines written to the subprocess of s
RequestsTo(io, s) == EventsOf(io, "request", s)
CallsTo(io, s) == {i \in RequestsTo(io, s) : io[i].method = "tools/call"}
\* the connect attempts for s: a spawn, or an executable that is missing
AttemptsOf(io, s) == EventsOf(io, "spawn", s) \cup EventsOf(io, "exec_failed", s)
\* the tool fetches of _update_tools_from_server for s that gave tools
ListedAt(io, s) == {i \in EventsOf(io, "listed", s) : io[i].id > 0}
FailedPingsOf(io, s) == {i \in EventsOf(io, "ping", s) : io[i].method = "failed"}

ConfigNames == {cfg.name : cfg \in Range(server_configs)}
EnabledNames == {cfg.name : cfg \in {c \in Range(server_configs) : c.enabled}}
AutoRestart(s) == ConfigOf(server_configs, s).auto_restart

Owns(reg, s, key) == key \in DOMAIN reg /\ reg[key].server_name = s

\* C1 (as claimed): a call_tool of a registered name whose owning server is
\* connected, its process running, writes a tools/call request to that
\* server's subprocess and is not rejected locally as an unknown tool
C1_RegisteredNameIsDelegated ==
    (last.op = "call_tool" /\ last.arg \in DOMAIN all_tools) =>
        LET owner == all_tools[last.arg].server_name
        IN (/\ owner \in DOMAIN clients
            /\ server_status[owner].connected
            /\ clients[owner].is_connected
            /\ proc[owner].state = "running")
           => (CallsTo(last.io, owner) # {} /\ last.exc \notin {"ToolNotFound", "ValueError"})

\* C2: when, in one handler, the tool list of s1 is registered and then the
\* tool list of s2, both with tool t, and the bare name t was not held by s2
\* before, the registry afterwards holds t bound to s1 and "{s2}_{t}" bound
\* to s2: both entries exist and neither overwrote the other
C2_CollisionRule ==
    [][\A s1 \in Servers, s2 \in Servers, t \in ToolNames :
         (/\ s1 # s2
          /\ t \in Range(proc'[s1].tools) /\ t \in Range(proc'[s2].tools)
          /\ \E i \in ListedAt(last'.io, s1), j \in ListedAt(last'.io, s2) : i < j
          /\ (t \in DOMAIN all_tools => all_tools[t].server_name = s1))
         => (/\ Owns(all_tools', s1, t)
             /\ Owns(all_tools', s2, PrefixedName(s2, t)))]_vars

C2_Witness ==
    /\ last.op = "connect_all_servers"
    /\ \E i \in ListedAt(last.io, "A"), j \in ListedAt(last.io, "B") : i < j
    /\ Owns(all_tools, "A", "search")
    /\ Owns(all_tools, "B", "B_search")

\* C3 (as claimed): connect_all_servers returns a map whose keys are exactly
\* the names of the configured servers that are enabled
C3_KeysAreEnabledServers ==
    last.op = "connect_all_servers" => DOMAIN last.results = EnabledNames

\* C3 (amended): connect_all_servers returns a map whose keys are exactly the
\* names of all configured servers, one boolean each, whatever the connect
\* outcomes; a disabled server has an entry, and it is false
C3_KeysAreConfiguredServers ==
    last.op = "connect_all_servers" =>
        /\ DOMAIN last.results = ConfigNames
        /\ \A s \in ConfigNames : last.results[s] \in BOOLEAN
        /\ \A s \in ConfigNames \ EnabledNames : last.results[s] = FALSE

C3_Witness ==
    /\ last.op = "connect_all_servers"
    /\ DOMAIN last.results = {"A", "B", "C"}
    /\ last.results["A"] /\ ~last.results["B"] /\ ~last.results["C"]
    /\ AttemptsOf(last.io, "B") # {}

\* C4: connect_all_servers returns whatever fails: every enabled server is
\* attempted, and every server whose own spawn and handshake succeeded
\* (the initialized notification was written) has true in the result
C4_FailuresAreIsolated ==
    last.op = "connect_all_servers" =>
        /\ last.ok
        /\ \A s \in EnabledNames : AttemptsOf(last.io, s) # {}
        /\ \A s \in ConfigNames :
              EventsOf(last.io, "notify", s) # {} => (s \in DOMAIN last.results /\ last.results[s])

C4_Witness ==
    /\ last.op = "connect_all_servers"
    /\ \E s1 \in EnabledNames, s2 \in EnabledNames :
          /\ AttemptsOf(last.io, s1) # {} /\ ~last.results[s1]
          /\ \E i \in AttemptsOf(last.io, s1), j \in EventsOf(last.io, "notify", s2) : i < j
          /\ last.results[s2]

\* C5: call_tool of a name that is not in the aggregate registry raises the
\* tool-not-found error and does nothing else: no I/O with any subprocess,
\* no request id consumed, registry, clients and statuses unchanged
C5_UnknownNameRaisesLocally ==
    [][(last'.op = "call_tool" /\ last'.arg \notin DOMAIN all_tools)
         => (/\ ~last'.ok /\ last'.exc = "ToolNotFound"
             /\ last'.io = <<>>
             /\ clients' = clients /\ all_tools' = all_tools
             /\ server_status' = server_status /\ proc' = proc)]_vars

C5_Witness ==
    /\ last.op = "call_tool" /\ last.exc = "ToolNotFound"
    /\ all_tools # EmptyMap
    /\ \E s \in DOMAIN clients : proc[s].state = "running" /\ clients[s].request_id > 0

\* C6 (as claimed): call_tool of a registered name whose owning server has
\* ServerStatus.connected = false raises and writes nothing to that server
C6_DisconnectedOwnerRaises ==
    (last.op = "call_tool" /\ last.arg \in DOMAIN all_tools) =>
        LET owner == all_tools[last.arg].server_name
        IN ~server_status[owner].connected
           => (~last.ok /\ RequestsTo(last.io, owner) = {})

\* C7: when disconnect_all_servers has returned, the registry and the clients
\* map are empty, no status has connected = true, and a call_tool of any
\* name raises
Cleared ==
    /\ all_tools = EmptyMap
    /\ clients = EmptyMap
    /\ \A s \in DOMAIN server_status : ~server_status[s].connected

C7_DisconnectAllClears ==
    last.op = "disconnect_all_servers" =>
        /\ Cleared
        /\ \A n \in CallNames, a \in Arguments :
              \A r \in manager_call_tool(St, n, a) : ~r.ok /\ r.st.io = <<>>

\* a disconnect_all_servers that found a process that had already exited
C7_Witness ==
    /\ last.op = "disconnect_all_servers"
    /\ \E i \in DOMAIN last.io : last.io[i].ev = "terminate" /\ last.io[i].method = "exited"
    /\ \E i \in DOMAIN last.io : last.io[i].ev = "terminate" /\ last.io[i].method = "running"

\* C8 (as claimed): once a server with auto_restart = false has failed a
\* health-check ping, a health check leaves its connected flag false and
\* spawns no process for it
C8_StaysDisconnected ==
    [][\A s \in Servers :
         (/\ last'.op = "_perform_health_check"
          /\ ~AutoRestart(s)
          /\ ~server_status[s].connected
          /\ server_status[s].error = "Ping failed")
         => (~server_status'[s].connected /\ EventsOf(last'.io, "spawn", s) = {})]_vars

C10_ResponseMatchesRequest ==
    \A i \in DOMAIN last.io :
        last.io[i].ev = "response" => last.io[i].rid = last.io[i].id

\* the requests to s that failed after they were written: no response in
\* time, end of file, an unparsable line or an RPC error
FailuresOf(io, s) ==
    EventsOf(io, "timeout", s) \cup EventsOf(io, "eof", s) \cup EventsOf(io, "rejected", s)

\* C11 (as claimed): when a request of call_tool or refresh_tools to a client
\* that is marked connected fails, the client is not marked connected
\* afterwards
C11_FailedRequestDisconnects ==
    [][\A s \in DOMAIN clients :
         (/\ last'.op \in {"call_tool", "refresh_tools"}
          /\ clients[s].is_connected
          /\ FailuresOf(last'.io, s) # {})
         => ~clients'[s].is_connected]_vars

\* C12 (as claimed): an enabled server for which connect_all_servers reports
\* false has connected = false and a non-empty error string in its status
C12_FailureIsRecorded ==
    last.op = "connect_all_servers" =>
        \A s \in EnabledNames :
            (s \in DOMAIN last.results /\ ~last.results[s])
            => (/\ ~server_status[s].connected
                /\ server_status[s].error \notin {None, ""})

\* C13: a send_request whose response does not arrive within the timeout
\* raises, and the subprocess is as it was: the client keeps its process
\* handle and the process is running when the call returns.  This holds of
\* every request a client in the map can send, and of the call_tool that
\* made such a request: it raises and the process is left running
C13_TimeoutLeavesProcess ==
    /\ \A s \in DOMAIN clients : \A method \in {"ping", "tools/list", "tools/call"} :
          \A r \in send_request(Cx(St, s, clients[s]), method, NoParams) :
             EventsOf(r.cx.io, "timeout", s) # {}
             => (/\ ~r.ok
                 /\ r.cx.c.process = clients[s].process /\ r.cx.c.process # None
                 /\ r.cx.p.state = "running")
    /\ \A s \in Servers :
          (last.op = "call_tool" /\ EventsOf(last.io, "timeout", s) # {})
          => (/\ ~last.ok /\ last.exc = "RuntimeError"
              /\ EventsOf(last.io, "terminate", s) = {}
              /\ clients[s].process = Popen /\ proc[s].state = "running")

C13_Witness ==
    /\ last.op = "call_tool" /\ last.exc = "RuntimeError"
    /\ \E s \in Servers :
          /\ EventsOf(last.io, "timeout", s) # {}
          /\ clients[s].process = Popen /\ proc[s].state = "running"
          /\ proc[s].pipe # <<>>

\* C15: one call_tool writes at most one request, a tools/call to the server
\* that owns the tool; it spawns and stops nothing; and when that request
\* fails, call_tool raises the error of the request
C15_NoRetry ==
    [][last'.op = "call_tool" =>
         /\ Cardinality({i \in DOMAIN last'.io : last'.io[i].ev \in {"request", "notify"}}) <= 1
         /\ \A i \in DOMAIN last'.io :
               /\ last'.io[i].ev \notin {"spawn", "exec_failed", "terminate"}
               /\ last'.io[i].ev = "request" =>
                     /\ last'.io[i].method = "tools/call"
                     /\ last'.arg \in DOMAIN all_tools
                     /\ last'.io[i].server = all_tools[last'.arg].server_name
         /\ \A s \in Servers :
               FailuresOf(last'.io, s) # {} => (~last'.ok /\ last'.exc = "RuntimeError")]_vars

C15_Witness ==
    /\ last.op = "call_tool" /\ last.exc = "RuntimeError"
    /\ \E s \in Servers :
          /\ Cardinality(CallsTo(last.io, s)) = 1
          /\ FailuresOf(last.io, s) # {}
          /\ proc[s].state = "running"

\* C19 (as claimed): a client that connect_all_servers leaves marked connected
\* had its initialized notification written to its subprocess
C19_ConnectedAfterNotification ==
    last.op = "connect_all_servers" =>
        \A s \in DOMAIN clients :
            clients[s].is_connected => EventsOf(last.io, "notify", s) # {}

\* C16 (as claimed): refresh_tools leaves the registry entries of a server
\* that is not connected (its status says so and its process is not running)
\* as they were
C16_RefreshKeepsDisconnectedEntries ==
    [][\A s \in Servers :
         (/\ last'.op = "refresh_tools"
          /\ ~server_status[s].connected
          /\ proc[s].state # "running")
         => \A k \in DOMAIN all_tools :
               all_tools[k].server_name = s => Owns(all_tools', s, k)]_vars

\* the client objects of the map, the request counter left aside
SameClients(cs1, cs2) ==
    /\ DOMAIN cs1 = DOMAIN cs2
    /\ \A s \in DOMAIN cs1 :
          [cs1[s] EXCEPT !.request_id = 0] = [cs2[s] EXCEPT !.request_id = 0]

\* a call_tool step leaves the statuses, the registry and the clients map
CallToolFrame ==
    last'.op = "call_tool" =>
        /\ server_status' = server_status
        /\ all_tools' = all_tools
        /\ clients_order' = clients_order
        /\ SameClients(clients', clients)

\* C20 (as claimed): call_tool, whether it returns or raises, leaves every
\* status, the registry and the clients map unchanged, and a status changes
\* only in a connect attempt, a health check or a disconnect
C20_StatusChangesOnlyByConnectCheckDisconnect ==
    [][/\ CallToolFrame
       /\ server_status' # server_status =>
             last'.op \in {"connect_all_servers", "_perform_health_check",
                           "disconnect_all_servers"}]_vars

\* C20 (amended): call_tool, whether it returns or raises, leaves every
\* status, the registry and the clients map unchanged; a status changes only
\* in a connect attempt, a health check, a disconnect or a refresh_tools,
\* and refresh_tools changes nothing of a status but tools_count
C20_StatusChangesNotByCallTool ==
    [][/\ CallToolFrame
       /\ server_status' # server_status =>
             last'.op \in {"connect_all_servers", "_perform_health_check",
                           "disconnect_all_servers", "refresh_tools"}
       /\ last'.op = "refresh_tools" =>
             \A s \in DOMAIN server_status :
                server_status'[s] = [server_status[s] EXCEPT
                                        !.tools_count = server_status'[s].tools_count]]_vars

\* a call_tool whose request failed, the owner's status still connected
C20_Witness ==
    /\ last.op = "call_tool" /\ ~last.ok
    /\ \E s \in Servers :
          /\ FailuresOf(last.io, s) # {}
          /\ server_status[s].connected /\ server_status[s].error = None
          /\ server_status[s].tools_count > 0

\* the places in the I/O log of execute_plan that belong to step i: from
\* its marker up to the marker of the next step
StepMarker(io, i) == {k \in DOMAIN io : io[k].ev = "step" /\ io[k].id = i}
StepEvents(io, i) ==
    {k \in DOMAIN io :
        /\ \E m \in StepMarker(io, i) : m < k
        /\ \A m \in StepMarker(io, i + 1) : k < m}

\* C14: execute_plan returns one result per plan step, in plan order, and
\* every step is dispatched, in order, whatever happened to the steps before
\* it; a step whose call_tool raised (its request failed, or the tool or its
\* server was refused) has status failed and the error recorded
C14_FailedStepIsNotFatal ==
    last.op = "execute_plan" =>
        /\ last.ok
        /\ Len(last.steps) = Len(last.plan)
        /\ \A i \in DOMAIN last.plan :
              /\ last.steps[i].step = i /\ last.steps[i].tool = last.plan[i]
              /\ Cardinality(StepMarker(last.io, i)) = 1
              /\ \A j \in DOMAIN last.plan :
                    i < j => \A m \in StepMarker(last.io, i), n \in StepMarker(last.io, j) : m < n
              /\ (\E k \in StepEvents(last.io, i) :
                      last.io[k].ev \in {"timeout", "eof", "rejected"})
                 => (/\ last.steps[i].status = "failed"
                     /\ last.steps[i].error = McpError("RuntimeError"))
              /\ last.steps[i].status = "completed"
                 => (last.plan[i] \in BuiltinTools
                     \/ \E k \in StepEvents(last.io, i) : last.io[k].ev = "response")

\* a step whose request failed, followed by a step that was carried out
C14_Witness ==
    /\ last.op = "execute_plan" /\ Len(last.plan) = 2
    /\ last.steps[1].status = "failed" /\ last.steps[1].error = McpError("RuntimeError")
    /\ last.steps[2].status = "completed" /\ last.plan[2] \notin BuiltinTools
    /\ \E k \in StepEvents(last.io, 1) : last.io[k].ev \in {"timeout", "eof", "rejected"}
    /\ \E k \in StepEvents(last.io, 2) : last.io[k].ev = "response"

\* the health-check threads alive, and those inside a pass
LiveThreads == DOMAIN health_threads
Checking == {t \in DOMAIN health_threads : health_threads[t].pc = "checking"}

\* C17: at most one health-check thread is alive at any time, and when
\* stop_health_check has returned none is, so that no pass is in progress;
\* a start_health_check while the flag is set creates no thread, and a
\* stop_health_check while the flag is clear and no thread is alive changes
\* nothing
C17_StartStopIdempotent ==
    /\ [](/\ Cardinality(LiveThreads) <= 1
          /\ last.op = "stop_health_check" =>
                (LiveThreads = {} /\ Checking = {} /\ ~health_check_running))
    /\ [][/\ (last'.op = "start_health_check" /\ health_check_running)
             => UNCHANGED <<health, clients, all_tools, server_status, proc>>
          /\ (last'.op = "start_health_check" /\ ~health_check_running)
             => (health_check_running' /\ Cardinality(LiveThreads') = 1)
          /\ (last'.op = "stop_health_check" /\ ~health_check_running /\ ~joining)
             => UNCHANGED <<health, clients, all_tools, server_status, proc>>]_vars

\* a stop_health_check that found the thread inside a pass has returned
C17_Witness ==
    /\ last.op = "stop_health_check" /\ last.arg = "joined"
    /\ LiveThreads = {} /\ ~health_check_running
    /\ health_check_thread # NoThread
    /\ \E s \in DOMAIN clients : clients[s].last_heartbeat = Now

\* C18: ping returns a boolean whatever the subprocess does, and a
\* health-check thread ends only when the running flag is clear: neither a
\* failed ping, nor a failed reconnect, nor the RuntimeError of an iterator
\* over a clients map that another thread has changed ends it
C18_LoopSurvivesFailures ==
    /\ [](\A s \in DOMAIN clients :
             \A r \in ping(Cx(St, s, clients[s])) : r.ret \in BOOLEAN)
    /\ [][/\ \A t \in LiveThreads : t \notin LiveThreads' => ~health_check_running
          /\ last'.exc = "RuntimeError" /\ last'.op = "_health_check_loop"
             => LiveThreads' = LiveThreads]_vars

\* the iterator of a pass has raised, the thread is back at the head of
\* its loop and the flag is set
C18_Witness ==
    /\ last.op = "_health_check_loop" /\ last.exc = "RuntimeError"
    /\ health_check_running
    /\ \E t \in LiveThreads : health_threads[t].pc = "loop"

\* the tools/call request of the last call_tool got its own response
AnsweredCall(s) ==
    \E i \in DOMAIN last.io :
        /\ last.io[i].ev = "response" /\ last.io[i].server = s
        /\ last.io[i].method = "tools/call" /\ last.io[i].rid = last.io[i].id

\* C21 (as claimed): a call_tool that got the response to its request
\* returns the text of the first item when the result has a non-empty
\* content array, and the raw result in every other case
C21_FirstTextOrRawResult ==
    (last.op = "call_tool" /\ last.ok /\ last.arg \in DOMAIN all_tools) =>
        LET tool == all_tools[last.arg]
            line == ResultOf(proc[tool.server_name], "tools/call",
                             CallParams(tool.name, "hi"))
        IN AnsweredCall(tool.server_name) =>
             IF line.has_content /\ Len(line.content) > 0
             THEN last.value = [kind |-> "text", text |-> line.content[1]]
             ELSE last.value.kind = "raw"

\* the requests to s and the spawns of a process for s in an I/O log
RequestsAndSpawns(io, s) == RequestsTo(io, s) \cup EventsOf(io, "spawn", s)
Latest(S) == CHOOSE j \in S : \A k \in S : k <= j

\* C22: every request of a handler to server s carries the id that follows
\* the id of the request before it on the same client, whether that one
\* failed or not, and the first request of a client spawned for s carries 1;
\* a notification carries no id and uses none; the counter of the client
\* in the map is the id of its last request
C22_RequestIdsIncrease ==
    /\ [](\A s \in Servers :
            /\ \A i \in RequestsTo(last.io, s) :
                  LET before == {j \in RequestsAndSpawns(last.io, s) : j < i}
                  IN before # {} =>
                        IF last.io[Latest(before)].ev = "spawn"
                        THEN last.io[i].id = 1
                        ELSE last.io[i].id = last.io[Latest(before)].id + 1
            /\ \A i \in EventsOf(last.io, "notify", s) : last.io[i].id = 0
            /\ (s \in DOMAIN clients /\ clients[s].is_connected
                 /\ RequestsTo(last.io, s) # {})
               => clients[s].request_id = last.io[Latest(RequestsTo(last.io, s))].id)
    /\ [][\A s \in Servers :
             LET all == RequestsAndSpawns(last'.io, s)
             IN \A i \in RequestsTo(last'.io, s) :
                   (\A j \in all : i <= j)
                      => /\ s \in DOMAIN clients
                         /\ last'.io[i].id = clients[s].request_id + 1]_vars

\* a health check whose ping, the fourth request of the client, failed, and
\* whose reconnect made a client that began with id 1
C22_Witness ==
    /\ last.op = "_perform_health_check"
    /\ \E i \in RequestsTo(last.io, "A"), j \in EventsOf(last.io, "spawn", "A"),
          k \in RequestsTo(last.io, "A") :
          /\ i < j /\ j < k
          /\ last.io[i].id >= 4 /\ last.io[k].id = 1
          /\ FailuresOf(last.io, "A") # {}

\* C27 (as claimed): a bare tool name bound to a server whose process runs
\* and still exposes the tool is not bound to another server after a
\* refresh_tools or a health check
C27_BareNameIsKept ==
    [][\A s \in Servers, t \in ToolNames :
         (/\ last'.op \in {"refresh_tools", "_perform_health_check"}
          /\ Owns(all_tools, s, t)
          /\ proc[s].state = "running" /\ proc'[s].state = "running"
          /\ t \in Range(proc'[s].tools))
         => ~\E s2 \in Servers \ {s} : Owns(all_tools', s2, t)]_vars

\* the tools/list request of the last refresh_tools to s got its own response
FetchedAgain(s) ==
    /\ last.op = "refresh_tools"
    /\ \E i \in EventsOf(last.io, "response", s) :
          last.io[i].method = "tools/list" /\ last.io[i].rid = last.io[i].id

\* the tools of s that the registry holds, under the bare or the prefixed key
RegisteredToolsOf(reg, s) ==
    {t \in ToolNames : Owns(reg, s, t) \/ Owns(reg, s, PrefixedName(s, t))}

\* C28 (as claimed): after refresh_tools has fetched the tool list of a
\* server again, the client's own tool set and the registry entries owned
\* by the server are exactly the tools of the latest listing
C28_ToolsAreReplaced ==
    \A s \in DOMAIN clients :
        FetchedAgain(s) =>
            /\ clients[s].tools = Range(proc[s].tools)
            /\ RegisteredToolsOf(all_tools, s) = Range(proc[s].tools)

\* the requests written to the client of s whose responses were not read
InFlight(s) == {r \in in_flight : r.server = s /\ ~r.dead}

\* C23 (as claimed): a ping of the health-check thread and a tools/call of
\* the caller's thread are never pending on the same connection together
C23_OneRequestInFlight ==
    \A s \in Servers :
        ~\E r1, r2 \in InFlight(s) : r1.by = HealthThread /\ r2.by = CallerThread

\* C24 (as claimed): a step that changes the aggregate tool map or the
\* status map is taken while the connection lock is held
C24_MapsChangeUnderLock ==
    [][(all_tools' # all_tools \/ server_status' # server_status)
         => connection_lock # None]_vars

\* disconnect_all_servers has returned and no connect_all_servers has begun
\* since: no client, no registry entry, no subprocess alive
AllDisconnected ==
    /\ caller = Idle /\ futures = EmptyMap
    /\ clients = EmptyMap /\ all_tools = EmptyMap
    /\ \A s \in Servers : proc[s].state # "running"

\* C25 (as claimed): after disconnect_all_servers has returned, a step of
\* the health-check thread leaves every subprocess dead and the registry
\* empty
C25_StaysDisconnected ==
    [][(AllDisconnected /\ health_threads' # health_threads)
         => /\ all_tools' = EmptyMap
            /\ \A s \in Servers : proc'[s].state # "running"]_vars

\* the threads that are inside "with self.connection_lock" of
\* _connect_server for server s: a pool thread, the health thread
AttemptsInProgress(s) ==
    {s2 \in DOMAIN futures : s2 = s /\ futures[s2].pc = "locked"}
    \cup {HealthThread : t \in {t2 \in DOMAIN health_threads :
                                    /\ health_threads[t2].pc = "locked"
                                    /\ health_threads[t2].server = s}}

\* the process of s is dead, or it is terminated in io before place i
StoppedBefore(p, io, s, i) ==
    \/ p[s].state # "running"
    \/ \E j \in EventsOf(io, "terminate", s) : j < i

C29_AttemptsRunConcurrently ==
    \A s, s2 \in DOMAIN futures :
        (s # s2 /\ futures[s].pc = "waiting" /\ futures[s2].pc = "locked")
            => ENABLED WorkerAcquire(s)

\* connect_all_servers returns in this step
Returning == caller.pc = "collecting" /\ last'.op = "connect_all_servers"

\* no pool thread waits for the lock or is inside _connect_server, and the
\* result map has the value of every future
Resolved(fs, results) ==
    /\ \A s \in DOMAIN fs : fs[s].pc \notin {"waiting", "locked"}
    /\ DOMAIN results = DOMAIN fs
    /\ \A s \in DOMAIN fs : results[s] = fs[s].ret

ProbedByListing(io, s) ==
    \E i \in EventsOf(io, "rejected", s), j \in EventsOf(io, "response", s) :
        /\ io[i].method = "ping" /\ io[i].rid = io[i].id
        /\ io[j].method = "tools/list" /\ io[j].rid = io[j].id
        /\ i < j
        /\ \A k \in AttemptsOf(io, s) : j < k

\* C31 (as claimed): after a health check whose ping of a server fell back
\* to tools/list, the registry entries of the server are the tools of the
\* listing the probe returned
C31_ProbeOverwritesRegistry ==
    \A s \in DOMAIN clients :
        (last.op = "_perform_health_check" /\ ProbedByListing(last.io, s))
            => RegisteredToolsOf(all_tools, s) = Range(proc[s].tools)

\* C31 (amended): a health check whose ping of a server fell back to
\* tools/list, and which did not reconnect the server, leaves the registry
\* entries of the server, its tools_count and the tool set of its client
\* as they were, whatever the probe listed
C31_ProbeLeavesRegistry ==
    [][\A s \in DOMAIN clients :
          (/\ last'.op = "_perform_health_check"
           /\ ProbedByListing(last'.io, s)
           /\ AttemptsOf(last'.io, s) = {})
          => /\ s \in DOMAIN clients'
             /\ clients'[s].tools = clients[s].tools
             /\ OwnedKeys(all_tools', s) = OwnedKeys(all_tools, s)
             /\ \A k \in OwnedKeys(all_tools, s) : all_tools'[k] = all_tools[k]
             /\ server_status'[s].tools_count = server_status[s].tools_count]_vars

\* a health check has probed a server by tools/list, and the listing of the
\* probe is not what the registry holds for the server
C31_Witness ==
    \E s \in DOMAIN clients :
        /\ last.op = "_perform_health_check"
        /\ ProbedByListing(last.io, s)
        /\ AttemptsOf(last.io, s) = {}
        /\ RegisteredToolsOf(all_tools, s) # Range(proc[s].tools)

\* the last health check found the ping of s failed and its _connect_server
\* for s returned True: it stored the new client and fetched its tools
Reconnected(io, s) ==
    \E i \in FailedPingsOf(io, s), j \in EventsOf(io, "listed", s) : i < j

\* MCPToolManager.get_available_servers
get_available_servers(status) == {s \in DOMAIN status : status[s].connected}

\* C32 (as claimed): at the end of a health check that reconnected a server
\* successfully, the status of the server is connected with no error, and
\* get_available_servers has the server
C32_ConnectedAfterReconnect ==
    \A s \in DOMAIN server_status :
        (last.op = "_perform_health_check" /\ Reconnected(last.io, s))
            => /\ server_status[s].connected
               /\ server_status[s].error = None
               /\ s \in get_available_servers(server_status)

\* C36 (as claimed): every step result of execute_plan with status failed
\* has an error message that is not empty
C36_FailedStepHasError ==
    last.op = "execute_plan" =>
        \A i \in DOMAIN last.steps :
            last.steps[i].status = "failed" => last.steps[i].error # ""

\* MCPClient.get_server_info, its description key left out
get_server_info(cx, cfg) ==
    [name |-> cfg.name, enabled |-> cfg.enabled,
     connected |-> cx.c.is_connected,
     tools_count |-> Cardinality(cx.c.tools),
     process_running |-> Running(cx),
     last_heartbeat |-> cx.c.last_heartbeat]

\* MCPToolManager.get_server_status: {**server_info, **client_info}, the
\* keys of the client before those of the status entry
get_server_status(st, configs) ==
    [s \in DOMAIN st.server_status |->
        LET server_info == st.server_status[s]
            client_info == IF s \in DOMAIN st.clients
                           THEN get_server_info(Cx(st, s, st.clients[s]), ConfigOf(configs, s))
                           ELSE EmptyMap
        IN client_info @@ server_info]

\* C34 (as claimed): the connected flag that get_server_status reports for
\* a server tells whether get_available_servers has the server
C34_EndpointsAgree ==
    \A s \in DOMAIN server_status :
        get_server_status(St, server_configs)[s].connected
            <=> s \in get_available_servers(server_status)

\* a connect attempt of the last handler for s that failed: no fetch of
\* _update_tools_from_server follows it
FailedAttempt(io, s) ==
    \E k \in AttemptsOf(io, s) : \A j \in EventsOf(io, "listed", s) : j < k
\* the requests the last handler wrote to the client of s that it found
RequestsBefore(io, s) ==
    Cardinality({i \in RequestsTo(io, s) : \A k \in AttemptsOf(io, s) : i < k})

\* C33: after a handler whose connect attempt for a server failed, at the
\* start of the executable, in the startup probe or in the handshake, the
\* subprocess of the server is not running, and the clients map holds for
\* the server what it held before, disconnected: never the client of the
\* failed attempt
C33_FailedAttemptLeavesNothing ==
    [][\A s \in Servers :
          FailedAttempt(last'.io, s) =>
             /\ proc'[s].state # "running"
             /\ s \notin DOMAIN clients => s \notin DOMAIN clients'
             /\ s \in DOMAIN clients =>
                   /\ s \in DOMAIN clients'
                   /\ clients'[s] =
                         [clients[s] EXCEPT
                            !.process = None, !.is_connected = FALSE, !.tools = {},
                            !.request_id = @ + RequestsBefore(last'.io, s)]]_vars

\* a connect attempt spawned a subprocess, the handshake failed while the
\* subprocess was running, and it was terminated
C33_Witness ==
    \E s \in Servers :
        /\ FailedAttempt(last.io, s)
        /\ \E k \in EventsOf(last.io, "spawn", s), i \in RequestsTo(last.io, s),
              j \in EventsOf(last.io, "terminate", s) :
              /\ k < i /\ i < j
              /\ last.io[i].method = "initialize"
              /\ last.io[j].method = "running"
        /\ proc[s].state = "exited"

\* the tools/list, tools/call and ping requests written to s
ToolRequests(io, s) ==
    {i \in RequestsTo(io, s) : io[i].method \in {"tools/list", "tools/call", "ping"}}
\* the spawns of a subprocess of s before place i of the log
SpawnsBefore(io, s, i) == {k \in EventsOf(io, "spawn", s) : k < i}
\* between places k and i of the log the initialize request to s got its
\* own successful response and then the initialized notification was written
HandshakeBetween(io, s, k, i) ==
    \E r \in RequestsTo(io, s), x \in EventsOf(io, "response", s),
       n \in EventsOf(io, "notify", s) :
        /\ k < r /\ r < x /\ x < n /\ n < i
        /\ io[r].method = "initialize"
        /\ io[x].method = "initialize" /\ io[x].id = io[r].id /\ io[x].rid = io[r].id
        /\ io[n].method = "notifications/initialized"

\* C35: a tools/list, tools/call or ping request is written to a subprocess
\* only after the initialize request of its connection got a successful
\* response and the initialized notification was written: in the same
\* handler when the handler spawned the subprocess, and otherwise the
\* subprocess had read the notification, and its client was marked connected,
\* before the handler began
C35_HandshakeBeforeToolRequests ==
    /\ [](\A s \in Servers : \A i \in ToolRequests(last.io, s) :
            \A k \in SpawnsBefore(last.io, s, i) :
                (\A k2 \in SpawnsBefore(last.io, s, i) : k2 <= k)
                    => HandshakeBetween(last.io, s, k, i))
    /\ [][\A s \in Servers : \A i \in ToolRequests(last'.io, s) :
            SpawnsBefore(last'.io, s, i) = {}
                => /\ proc[s].state = "running" /\ proc[s].initialized
                   /\ s \in DOMAIN clients /\ clients[s].is_connected]_vars

\* a tools/call request written to a subprocess that an earlier handler
\* spawned, and answered
C35_Witness ==
    /\ last.op = "call_tool" /\ last.ok
    /\ \E s \in Servers : \E i \in ToolRequests(last.io, s) :
          /\ last.io[i].method = "tools/call"
          /\ SpawnsBefore(last.io, s, i) = {}
          /\ proc[s].initialized

\* the last handler fetched the tools of s by _update_tools_from_server
Fetched(s) ==
    /\ last.op \in {"connect_all_servers", "refresh_tools"}
    /\ EventsOf(last.io, "listed", s) # {}

\* C37 (as claimed): after a fetch of the tools of a server, the tools_count
\* of its status is the number of registry entries the server owns
C37_CountIsOwnedEntries ==
    \A s \in Servers :
        Fetched(s) => server_status[s].tools_count = Cardinality(OwnedKeys(all_tools, s))

====
